---- MODULE Spec2Model ----
(***************************************************************************)
(* Model of traffic_accident_analysis.py: a sequential script that loads   *)
(* the first CSV entry of archive.zip, derives time features, writes up to *)
(* six chart files and a textual summary report.                           *)
(*                                                                         *)
(* A table is [cols, n, pat]: cols is the set of column names, n the       *)
(* number of data rows, and row i is pat[((i-1) % Len(pat)) + 1], so that  *)
(* tables longer than the 50,000-row read limit can be represented.        *)
(* A row is a function from column name to cell value.                     *)
(***************************************************************************)
EXTENDS Integers, Sequences, FiniteSets, TLC

VARIABLES
    pc,             \* position of the script: "step1".."step9", "done", "exited", "crashed"
    err,            \* exception that ended the run, "none" otherwise
    archive_exists, \* os.path.exists('archive.zip')
    archive,        \* entries of archive.zip in listing order: [name, content]
    extracted,      \* names of the entries extracted to the working directory
    csv_file,       \* name of the selected entry (<<>> before selection)
    df,             \* the loaded table
    hour_counts,    \* df['Hour'].value_counts().sort_index()
    day_counts,     \* df['Day_of_Week'].value_counts().reindex(day_order)
    period_counts,  \* df['Time_Period'].value_counts().reindex(period_order)
    weekend_counts, \* df['Is_Weekend'].value_counts().sort_index()
    out,            \* output files written by this run
    report,         \* contents of analysis_summary.txt (NoReport before it is built)
    started,        \* steps whose banner was printed, in order
    checked,        \* columns on which an "in df.columns" test has succeeded
    used            \* columns of the table the script has subscripted

vars == <<pc, err, archive_exists, archive, extracted, csv_file, df,
          hour_counts, day_counts, period_counts, weekend_counts,
          out, report, started, checked, used>>

(***************************************************************************)
(* Bounds and program constants                                            *)
(***************************************************************************)
MaxEntries == 3     \* entries in the archive
MaxPat == 2         \* explicit rows of a table

NROWS == 50000      \* pd.read_csv(csv_file, nrows=50000)

NaN == -999         \* missing numeric value (NaT-derived fields, reindex gaps)

(***************************************************************************)
(* File names                                                              *)
(***************************************************************************)
DotCsv == <<".", "c", "s", "v">>

NameA == <<"a", ".", "c", "s", "v">>
NameB == <<"b", ".", "c", "s", "v">>
NameTxt == <<"r", ".", "t", "x", "t">>
NameNoDot == <<"c", "s", "v">>

\* str.endswith
EndsWith_NoDot(s, suf) ==
    /\ Len(s) >= Len(suf) - 1
    /\ SubSeq(s, Len(s) - (Len(suf) - 1) + 1, Len(s)) = Tail(suf)

EndsWith(s, suf) ==
    /\ Len(s) >= Len(suf)
    /\ SubSeq(s, Len(s) - Len(suf) + 1, Len(s)) = suf

\* [f for f in file_list if f.endswith('.csv')]
csv_files_of(entries) ==
    SelectSeq(entries, LAMBDA e : EndsWith(e.name, DotCsv))

(***************************************************************************)
(* Cells, rows and tables                                                  *)
(***************************************************************************)
Opaque == "v"

\* Start_Time text: a well-formed timestamp (day number, hour) or junk
Ts(d, h) == [text |-> "ts", day |-> d, hour |-> h]
Junk == [text |-> "junk", day |-> 0, hour |-> 0]

NaT == [nat |-> TRUE, day |-> 0, hour |-> 0]

\* pd.to_datetime(cell, errors='coerce')
to_datetime(c) ==
    IF c.text = "ts" THEN [nat |-> FALSE, day |-> c.day, hour |-> c.hour]
    ELSE NaT

MkRow(cols, t, w) ==
    [c \in cols |-> CASE c = "Start_Time" -> t
                      [] c = "Weather_Condition" -> w
                      [] OTHER -> Opaque]

NoTable == [cols |-> {}, n |-> 0, pat |-> <<>>]

\* row i of a table, 1 <= i <= t.n
RowAt(t, i) == t.pat[((i - 1) % Len(t.pat)) + 1]

\* number of rows 1..t.n that are copies of pat[j]
Mult(t, j) ==
    IF Len(t.pat) = 0 THEN 0
    ELSE (t.n \div Len(t.pat)) + (IF j <= t.n % Len(t.pat) THEN 1 ELSE 0)

RECURSIVE SumTo(_, _)
SumTo(f, k) == IF k = 0 THEN 0 ELSE f[k] + SumTo(f, k - 1)

\* number of rows of t that are copies of a pattern row at a position in J
CountAt(t, J) ==
    SumTo([j \in 1..Len(t.pat) |-> IF j \in J THEN Mult(t, j) ELSE 0],
          Len(t.pat))

\* number of rows of t whose row satisfies P
CountRows(t, P(_)) == CountAt(t, {j \in 1..Len(t.pat) : P(t.pat[j])})

Min(a, b) == IF a <= b THEN a ELSE b

\* pd.read_csv(csv_file, nrows=...): the first rows of the file
read_csv_NoLimit(t, nrows) == t

read_csv(t, nrows) == [t EXCEPT !.n = Min(t.n, nrows)]

(***************************************************************************)
(* STEP 2: derived time features                                           *)
(***************************************************************************)
day_order == <<"Monday", "Tuesday", "Wednesday", "Thursday", "Friday",
               "Saturday", "Sunday">>

period_order == <<"Morning", "Afternoon", "Evening", "Night">>

SeqRange(s) == {s[i] : i \in 1..Len(s)}

\* comparisons of Python floats: any comparison with NaN is False
Le(a, b) == a # NaN /\ b # NaN /\ a <= b
Lt(a, b) == a # NaN /\ b # NaN /\ a < b

\* Series.dt.hour
dt_hour(ts) == IF ts.nat THEN NaN ELSE ts.hour

\* Series.dt.dayofweek (Monday = 0); day 0 of the calendar is a Monday
dt_dayofweek(ts) == IF ts.nat THEN NaN ELSE ts.day % 7

\* Series.dt.day_name()
dt_day_name(ts) == IF ts.nat THEN "NaN" ELSE day_order[(ts.day % 7) + 1]

\* Series.dt.dayofweek.isin([5, 6]).astype(int)
Is_Weekend_of(ts) == IF dt_dayofweek(ts) \in {5, 6} THEN 1 ELSE 0

get_time_period(hour) ==
    IF Le(5, hour) /\ Lt(hour, 12) THEN "Morning"
    ELSE IF Le(12, hour) /\ Lt(hour, 17) THEN "Afternoon"
    ELSE IF Le(17, hour) /\ Lt(hour, 21) THEN "Evening"
    ELSE "Night"

DerivedCols == {"Hour", "Day_of_Week", "Month", "Month_Name", "Year",
                "Is_Weekend", "Time_Period"}

\* one row after lines 72-93
EnrichRow(r) ==
    LET ts == to_datetime(r["Start_Time"])
        hour == dt_hour(ts)
    IN  [c \in (DOMAIN r) \cup DerivedCols |->
            CASE c = "Start_Time" -> ts
              [] c = "Hour" -> hour
              [] c = "Day_of_Week" -> dt_day_name(ts)
              [] c = "Is_Weekend" -> Is_Weekend_of(ts)
              [] c = "Time_Period" -> get_time_period(hour)
              [] c \in {"Month", "Month_Name", "Year"} -> Opaque
              [] OTHER -> r[c]]

Enrich(t) ==
    [cols |-> t.cols \cup DerivedCols,
     n |-> t.n,
     pat |-> [j \in 1..Len(t.pat) |-> EnrichRow(t.pat[j])]]

(***************************************************************************)
(* STEP 3: aggregations                                                    *)
(***************************************************************************)
Hours == 0..23

WeatherNames == {"Rain", "Clear"}

EmptySeries == [x \in {} |-> 0]

\* Series.value_counts(): counts of the non-missing values that occur
value_counts(t, col, values) ==
    [v \in {x \in values : CountRows(t, LAMBDA r : r[col] = x) > 0} |->
        CountRows(t, LAMBDA r : r[col] = v)]

\* Series.reindex(order): missing labels get NaN
reindex(s, order) ==
    [k \in SeqRange(order) |-> IF k \in DOMAIN s THEN s[k] ELSE NaN]

\* labels of s holding a value (NaN skipped)
Present(s) == {k \in DOMAIN s : s[k] # NaN}

\* Series.max() / Series.min(), skipna
series_max(s) == CHOOSE m \in {s[k] : k \in Present(s)} :
                    \A k \in Present(s) : s[k] <= m
series_min(s) == CHOOSE m \in {s[k] : k \in Present(s)} :
                    \A k \in Present(s) : s[k] >= m

\* Series.idxmax() / idxmin() of a series indexed by an ordered list of
\* labels: the first label holding the extreme value
FirstIn(order, S) ==
    order[CHOOSE i \in 1..Len(order) :
            /\ order[i] \in S
            /\ \A j \in 1..(i - 1) : order[j] \notin S]

idxmax(s, order) == FirstIn(order, {k \in Present(s) : s[k] = series_max(s)})
idxmin(s, order) == FirstIn(order, {k \in Present(s) : s[k] = series_min(s)})

\* the sorted integer index of hour_counts
HourOrder == [i \in 1..24 |-> i - 1]

\* np.broadcast_arrays on two 1-d shapes
BroadcastOk(a, b) == a = b \/ a = 1 \/ b = 1

(***************************************************************************)
(* Inputs: the archive found in the working directory                      *)
(***************************************************************************)
env_cols == <<"Temperature(F)", "Humidity(%)", "Visibility(mi)",
              "Wind_Speed(mph)", "Pressure(in)">>

numeric_cols == <<"Severity", "Temperature(F)", "Humidity(%)",
                  "Visibility(mi)", "Wind_Speed(mph)", "Pressure(in)">>

AllCols == {"Start_Time", "Severity", "Weather_Condition", "Start_Lat",
            "Start_Lng"} \cup SeqRange(env_cols)

TimeSamples == {Ts(0, 0), Ts(2, 8), Ts(4, 22), Ts(5, 13), Ts(13, 23), Junk}

WeatherSamples == {"", "Rain"}

SeqsUpTo(S, k) == UNION {[1..m -> S] : m \in 0..k}

RowsOf(cols) == {MkRow(cols, t, w) : t \in TimeSamples, w \in WeatherSamples}

\* tables over cols: a pattern of at most MaxPat rows, read once (n is the
\* pattern length) or repeated up to one of the row counts in counts
TablesOf(cols, counts) ==
    LET all == {[cols |-> cols, n |-> IF k = 0 THEN Len(p) ELSE k, pat |-> p] :
                    p \in SeqsUpTo(RowsOf(cols), MaxPat), k \in {0} \cup counts}
    IN  {t \in all : Len(t.pat) > 0 \/ t.n = 0}

Entry(nm, t) == [name |-> nm, content |-> t]

\* archives of every shape, holding a few tables around the read limit
LoaderTables ==
    {[cols |-> AllCols, n |-> k, pat |-> <<MkRow(AllCols, Ts(2, 8), "Rain")>>] :
        k \in {1, NROWS - 1, NROWS, NROWS + 1}}
    \cup {[cols |-> AllCols, n |-> 2,
           pat |-> <<MkRow(AllCols, Ts(5, 13), ""),
                     MkRow(AllCols, Ts(0, 0), "Rain")>>]}

LoaderEntries ==
    {Entry(nm, t) : nm \in {NameA, NameB}, t \in LoaderTables}
    \cup {Entry(nm, NoTable) : nm \in {NameTxt, NameNoDot}}

\* entry names are unique within an archive
DistinctNames(es) ==
    \A i, j \in 1..Len(es) : es[i].name = es[j].name => i = j

LoaderInputs ==
    {[exists |-> TRUE, entries |-> es] :
        es \in {x \in SeqsUpTo(LoaderEntries, MaxEntries) : DistinctNames(x)}}
    \cup {[exists |-> FALSE, entries |-> <<>>]}

\* one archive shape, every table over the full and the weather-less columns
TableInputs ==
    {[exists |-> TRUE, entries |-> <<Entry(NameTxt, NoTable), Entry(NameA, t)>>] :
        t \in TablesOf(AllCols, {NROWS + 1})
              \cup TablesOf(AllCols \ {"Weather_Condition"}, {})}

\* one archive shape, two row patterns, every non-empty set of columns
ColumnPatterns == {<<<<Ts(2, 8), "Rain">>>>,
                   <<<<Ts(5, 13), "Rain">>, <<Junk, "">>>>}

ColumnInputs ==
    {[exists |-> TRUE,
      entries |-> <<Entry(NameA,
                          [cols |-> cs, n |-> Len(p),
                           pat |-> [j \in 1..Len(p) |->
                                       MkRow(cs, p[j][1], p[j][2])]])>>] :
        cs \in (SUBSET AllCols) \ {{}}, p \in ColumnPatterns}

Inputs == LoaderInputs \cup TableInputs \cup ColumnInputs

(***************************************************************************)
(* Output file names                                                       *)
(***************************************************************************)
TimeChart == "time_pattern_analysis.png"
WeatherChart == "weather_analysis.png"
SeverityChart == "severity_analysis.png"
GeoChart == "geographic_hotspots.png"
EnvChart == "environmental_factors.png"
CorrChart == "correlation_matrix.png"
Summary == "analysis_summary.txt"

Charts == {TimeChart, WeatherChart, SeverityChart, GeoChart, EnvChart, CorrChart}

NoReport == [written |-> FALSE]

(***************************************************************************)
(* Initial state: the script has printed its banner                        *)
(***************************************************************************)
Init ==
    /\ \E in \in Inputs :
        /\ archive_exists = in.exists
        /\ archive = in.entries
    /\ pc = "step1"
    /\ err = "none"
    /\ extracted = {}
    /\ csv_file = <<>>
    /\ df = NoTable
    /\ hour_counts = EmptySeries
    /\ day_counts = EmptySeries
    /\ period_counts = EmptySeries
    /\ weekend_counts = EmptySeries
    /\ out = {}
    /\ report = NoReport
    /\ started = <<>>
    /\ checked = {}
    /\ used = {}

Raise(e) == pc' = "crashed" /\ err' = e

(***************************************************************************)
(* STEP 1: extract and load                                                *)
(***************************************************************************)
\* lines 59-62: archive.zip not found
Step1_NoArchive ==
    /\ pc = "step1"
    /\ ~archive_exists
    /\ started' = Append(started, 1)
    /\ pc' = "exited"
    /\ UNCHANGED <<err, archive_exists, archive, extracted, csv_file, df,
                   hour_counts, day_counts, period_counts, weekend_counts,
                   out, report, checked, used>>

\* lines 55-57: no CSV entry in the archive
Step1_NoCsv ==
    /\ pc = "step1"
    /\ archive_exists
    /\ csv_files_of(archive) = <<>>
    /\ started' = Append(started, 1)
    /\ pc' = "exited"
    /\ UNCHANGED <<err, archive_exists, archive, extracted, csv_file, df,
                   hour_counts, day_counts, period_counts, weekend_counts,
                   out, report, checked, used>>

\* lines 42-54, 64: select, extract and read the first CSV entry
Step1_Load ==
    /\ pc = "step1"
    /\ archive_exists
    /\ csv_files_of(archive) # <<>>
    /\ LET csv_files == csv_files_of(archive)
           e == csv_files[1]
       IN  /\ csv_file' = e.name
           /\ extracted' = extracted \cup {e.name}
           /\ df' = read_csv(e.content, NROWS)
    /\ started' = Append(started, 1)
    /\ pc' = "step2"
    /\ UNCHANGED <<err, archive_exists, archive,
                   hour_counts, day_counts, period_counts, weekend_counts,
                   out, report, checked, used>>

(***************************************************************************)
(* STEP 2: preprocessing                                                   *)
(***************************************************************************)
\* line 72: df['Start_Time'] on a table without that column
Step2_KeyError ==
    /\ pc = "step2"
    /\ "Start_Time" \notin df.cols
    /\ started' = Append(started, 2)
    /\ used' = used \cup {"Start_Time"}
    /\ Raise("KeyError")
    /\ UNCHANGED <<archive_exists, archive, extracted, csv_file, df,
                   hour_counts, day_counts, period_counts, weekend_counts,
                   out, report, checked>>

\* lines 69-96
Step2_Preprocess ==
    /\ pc = "step2"
    /\ "Start_Time" \in df.cols
    /\ started' = Append(started, 2)
    /\ used' = used \cup {"Start_Time", "Hour"}
    /\ df' = Enrich(df)
    /\ pc' = "step3"
    /\ UNCHANGED <<err, archive_exists, archive, extracted, csv_file,
                   hour_counts, day_counts, period_counts, weekend_counts,
                   out, report, checked>>

(***************************************************************************)
(* STEP 3: time pattern analysis                                           *)
(***************************************************************************)
HasParsedRow(t) == CountRows(t, LAMBDA r : ~r["Start_Time"].nat) > 0

Step3Reads == {"Hour", "Day_of_Week", "Time_Period", "Month", "Is_Weekend"}

\* lines 107, 117, 128, 150
Aggregate ==
    /\ hour_counts' = value_counts(df, "Hour", Hours)
    /\ day_counts' = reindex(value_counts(df, "Day_of_Week", SeqRange(day_order)),
                             day_order)
    /\ period_counts' = reindex(value_counts(df, "Time_Period",
                                             SeqRange(period_order)),
                                period_order)
    /\ weekend_counts' = value_counts(df, "Is_Weekend", {0, 1})

\* line 152: plt.bar(labels, weekend_counts.values, ...) with two labels
WeekendBarOk == BroadcastOk(2, Cardinality(DOMAIN weekend_counts'))

\* line 152 on an empty table, line 159 without a Severity column, line 161
\* on a pivot table without cells
Step3_Raises ==
    /\ pc = "step3"
    /\ started' = Append(started, 3)
    /\ Aggregate
    /\ \/ /\ ~WeekendBarOk
          /\ used' = used \cup Step3Reads
          /\ Raise("ValueError")
       \/ /\ WeekendBarOk
          /\ "Severity" \notin df.cols
          /\ used' = used \cup Step3Reads \cup {"Severity"}
          /\ Raise("KeyError")
       \/ /\ WeekendBarOk
          /\ "Severity" \in df.cols
          /\ ~HasParsedRow(df)
          /\ used' = used \cup Step3Reads \cup {"Severity"}
          /\ Raise("ValueError")
    /\ UNCHANGED <<archive_exists, archive, extracted, csv_file, df,
                   out, report, checked>>

\* lines 101-169
Step3_TimePatterns ==
    /\ pc = "step3"
    /\ started' = Append(started, 3)
    /\ Aggregate
    /\ WeekendBarOk
    /\ "Severity" \in df.cols
    /\ HasParsedRow(df)
    /\ used' = used \cup Step3Reads \cup {"Severity"}
    /\ out' = out \cup {TimeChart}
    /\ pc' = "step4"
    /\ UNCHANGED <<err, archive_exists, archive, extracted, csv_file, df,
                   report, checked>>

(***************************************************************************)
(* STEPS 4-8: conditional charts                                           *)
(***************************************************************************)
\* lines 174-207
Step4_Weather ==
    /\ pc = "step4"
    /\ started' = Append(started, 4)
    /\ IF "Weather_Condition" \in df.cols
       THEN /\ checked' = checked \cup {"Weather_Condition"}
                          \cup (IF "Severity" \in df.cols THEN {"Severity"} ELSE {})
            /\ used' = used \cup {"Weather_Condition"}
                       \cup (IF "Severity" \in df.cols THEN {"Severity"} ELSE {})
            /\ out' = out \cup {WeatherChart}
       ELSE UNCHANGED <<checked, used, out>>
    /\ pc' = "step5"
    /\ UNCHANGED <<err, archive_exists, archive, extracted, csv_file, df,
                   hour_counts, day_counts, period_counts, weekend_counts,
                   report>>

Step5_Severity_Goto9 ==
    /\ pc = "step5"
    /\ started' = Append(started, 5)
    /\ IF "Severity" \in df.cols
       THEN /\ checked' = checked \cup {"Severity"}
            /\ used' = used \cup {"Severity"}
            /\ out' = out \cup {SeverityChart}
       ELSE UNCHANGED <<checked, used, out>>
    /\ pc' = "step9"
    /\ UNCHANGED <<err, archive_exists, archive, extracted, csv_file, df,
                   hour_counts, day_counts, period_counts, weekend_counts,
                   report>>

\* lines 212-236
Step5_Severity ==
    /\ pc = "step5"
    /\ started' = Append(started, 5)
    /\ IF "Severity" \in df.cols
       THEN /\ checked' = checked \cup {"Severity"}
            /\ used' = used \cup {"Severity"}
            /\ out' = out \cup {SeverityChart}
       ELSE UNCHANGED <<checked, used, out>>
    /\ pc' = "step6"
    /\ UNCHANGED <<err, archive_exists, archive, extracted, csv_file, df,
                   hour_counts, day_counts, period_counts, weekend_counts,
                   report>>

\* lines 241-258
Step6_Geographic ==
    /\ pc = "step6"
    /\ started' = Append(started, 6)
    /\ IF "Start_Lat" \in df.cols /\ "Start_Lng" \in df.cols
       THEN /\ checked' = checked \cup {"Start_Lat", "Start_Lng"}
            /\ used' = used \cup {"Start_Lat", "Start_Lng"}
            /\ out' = out \cup {GeoChart}
       ELSE /\ checked' = checked \cup ({"Start_Lat"} \cap df.cols)
            /\ UNCHANGED <<used, out>>
    /\ pc' = "step7"
    /\ UNCHANGED <<err, archive_exists, archive, extracted, csv_file, df,
                   hour_counts, day_counts, period_counts, weekend_counts,
                   report>>

\* [col for col in names if col in df.columns]
Available(names) == SelectSeq(names, LAMBDA c : c \in df.cols)

\* lines 263-285
Step7_Environment ==
    /\ pc = "step7"
    /\ started' = Append(started, 7)
    /\ LET available_env == Available(env_cols)
       IN  /\ checked' = checked \cup SeqRange(available_env)
           /\ IF Len(available_env) >= 2
              THEN /\ used' = used \cup
                        SeqRange(SubSeq(available_env, 1,
                                        Min(4, Len(available_env))))
                   /\ out' = out \cup {EnvChart}
              ELSE UNCHANGED <<used, out>>
    /\ pc' = "step8"
    /\ UNCHANGED <<err, archive_exists, archive, extracted, csv_file, df,
                   hour_counts, day_counts, period_counts, weekend_counts,
                   report>>

\* lines 290-305
Step8_Correlation ==
    /\ pc = "step8"
    /\ started' = Append(started, 8)
    /\ LET available_numeric == Available(numeric_cols)
       IN  /\ checked' = checked \cup SeqRange(available_numeric)
           /\ IF Len(available_numeric) >= 2
              THEN /\ used' = used \cup SeqRange(available_numeric)
                   /\ out' = out \cup {CorrChart}
              ELSE UNCHANGED <<used, out>>
    /\ pc' = "step9"
    /\ UNCHANGED <<err, archive_exists, archive, extracted, csv_file, df,
                   hour_counts, day_counts, period_counts, weekend_counts,
                   report>>

(***************************************************************************)
(* STEP 9: summary report                                                  *)
(***************************************************************************)
\* df['Weather_Condition'].value_counts()
weather_counts == value_counts(df, "Weather_Condition", WeatherNames)

\* line 313 on an empty hour_counts; line 334 when every Start_Time is NaT;
\* lines 365-366: .iloc[0] on an empty value_counts()
Step9_Raises ==
    /\ pc = "step9"
    /\ started' = Append(started, 9)
    /\ \/ /\ DOMAIN hour_counts = {}
          /\ UNCHANGED <<checked, used>>
          /\ Raise("ValueError")
       \/ /\ DOMAIN hour_counts # {}
          /\ "Weather_Condition" \in df.cols
          /\ DOMAIN weather_counts = {}
          /\ checked' = checked \cup ({"Start_Lat", "Severity"} \cap df.cols)
                        \cup {"Weather_Condition"}
          /\ used' = used \cup {"Start_Time", "Is_Weekend", "Weather_Condition"}
                     \cup ({"Start_Lat", "Severity"} \cap df.cols)
          /\ Raise("IndexError")
    /\ UNCHANGED <<archive_exists, archive, extracted, csv_file, df,
                   hour_counts, day_counts, period_counts, weekend_counts,
                   out, report>>

\* lines 313-324, 344-354, 390, 409-417: the figures of the report
BuildReport ==
    LET peak_hour == idxmax(hour_counts, HourOrder)
    IN  [written |-> TRUE,
         total |-> df.n,
         peak_hour |-> peak_hour,
         peak_hour_count |-> series_max(hour_counts),
         lowest_hour |-> idxmin(hour_counts, HourOrder),
         lowest_hour_count |-> series_min(hour_counts),
         peak_day |-> idxmax(day_counts, day_order),
         peak_day_count |-> series_max(day_counts),
         safest_day |-> idxmin(day_counts, day_order),
         safest_day_count |-> series_min(day_counts),
         peak_period |-> idxmax(period_counts, period_order),
         peak_period_count |-> series_max(period_counts),
         weekday |-> CountRows(df, LAMBDA r : r["Is_Weekend"] = 0),
         weekend |-> CountRows(df, LAMBDA r : r["Is_Weekend"] = 1),
         deploy_from |-> peak_hour - 1,
         deploy_to |-> peak_hour + 2,
         listed |-> Charts \cup {Summary}]

\* lines 310-437
Step9_Report ==
    /\ pc = "step9"
    /\ started' = Append(started, 9)
    /\ DOMAIN hour_counts # {}
    /\ "Weather_Condition" \in df.cols => DOMAIN weather_counts # {}
    /\ checked' = checked \cup ({"Start_Lat", "Severity", "Weather_Condition"}
                                \cap df.cols)
    /\ used' = used \cup {"Start_Time", "Is_Weekend"}
               \cup ({"Start_Lat", "Severity", "Weather_Condition"} \cap df.cols)
    /\ report' = BuildReport
    /\ out' = out \cup {Summary}
    /\ pc' = "completion"
    /\ UNCHANGED <<err, archive_exists, archive, extracted, csv_file, df,
                   hour_counts, day_counts, period_counts, weekend_counts>>

\* lines 442-452: the completion banner
Completion ==
    /\ pc = "completion"
    /\ pc' = "done"
    /\ UNCHANGED <<err, archive_exists, archive, extracted, csv_file, df,
                   hour_counts, day_counts, period_counts, weekend_counts,
                   out, report, started, checked, used>>

Next ==
    \/ Step1_NoArchive
    \/ Step1_NoCsv
    \/ Step1_Load
    \/ Step2_KeyError
    \/ Step2_Preprocess
    \/ Step3_Raises
    \/ Step3_TimePatterns
    \/ Step4_Weather
    \/ Step5_Severity
    \/ Step6_Geographic
    \/ Step7_Environment
    \/ Step8_Correlation
    \/ Step9_Raises
    \/ Step9_Report
    \/ Completion

Spec == Init /\ [][Next]_vars

TypeOK ==
    /\ pc \in {"step1", "step2", "step3", "step4", "step5", "step6", "step7",
               "step8", "step9", "completion", "done", "exited", "crashed"}
    /\ err \in {"none", "KeyError", "ValueError", "IndexError"}
    /\ out \subseteq Charts \cup {Summary}

(***************************************************************************)
(* Reference notions used by the properties                                *)
(***************************************************************************)
\* the name ends with the four characters . c s v
IsCsvName(nm) ==
    /\ Len(nm) >= 4
    /\ nm[Len(nm) - 3] = "."
    /\ nm[Len(nm) - 2] = "c"
    /\ nm[Len(nm) - 1] = "s"
    /\ nm[Len(nm)] = "v"

HasCsvEntry == \E i \in 1..Len(archive) : IsCsvName(archive[i].name)

\* a table has been loaded
Loaded == started # <<>> /\ pc # "exited"

\* the table stored in the archive under the selected name
Source == (CHOOSE e \in SeqRange(archive) : e.name = csv_file).content

Enriched == DerivedCols \subseteq df.cols

Parsed(r) == ~r["Start_Time"].nat

RECURSIVE SumOver(_, _)
SumOver(s, K) ==
    IF K = {} THEN 0
    ELSE LET k == CHOOSE x \in K : TRUE
         IN  s[k] + SumOver(s, K \ {k})

\* total of the counts a series holds
SeriesTotal(s) == SumOver(s, Present(s))

\* rows spot-checked against the source file
ProbeRows == (1..(MaxPat + 1)) \cup {NROWS - 1, NROWS}

(***************************************************************************)
(* C5: the loader selects the first entry, in listing order, whose name    *)
(* ends with ".csv", extracts only that entry, and the loaded table has    *)
(* min(n, 50000) rows, the first ones of the source.                       *)
(***************************************************************************)
C5_LoaderFirstCsvBounded ==
    Loaded =>
        /\ \E i \in 1..Len(archive) :
            /\ IsCsvName(archive[i].name)
            /\ \A j \in 1..(i - 1) : ~IsCsvName(archive[j].name)
            /\ csv_file = archive[i].name
            /\ df.n = Min(archive[i].content.n, NROWS)
            /\ pc = "step2" =>
                /\ df.cols = archive[i].content.cols
                /\ \A k \in ProbeRows :
                      k <= df.n => RowAt(df, k) = RowAt(archive[i].content, k)
        /\ extracted = {csv_file}
        /\ df.n <= NROWS

\* a non-CSV entry was passed over, a later CSV entry was left alone and the
\* source was cut at the limit
C5_Witness ==
    /\ pc = "step2"
    /\ Len(archive) = 3
    /\ ~IsCsvName(archive[1].name)
    /\ IsCsvName(archive[2].name)
    /\ IsCsvName(archive[3].name)
    /\ csv_file = archive[2].name
    /\ archive[2].content.n = NROWS + 1
    /\ archive[3].content.n # archive[2].content.n
    /\ df.n = NROWS

(***************************************************************************)
(* C7: without archive.zip, or without an entry ending in ".csv", the run  *)
(* stops in step 1: nothing is extracted, no table is loaded, no later     *)
(* step starts and no chart or summary is written.                         *)
(***************************************************************************)
C7_StopsInStep1 ==
    (~archive_exists \/ ~HasCsvEntry) =>
        /\ pc \in {"step1", "exited"}
        /\ started \in {<<>>, <<1>>}
        /\ extracted = {}
        /\ csv_file = <<>>
        /\ df = NoTable
        /\ out = {}

C7_Witness ==
    /\ pc = "exited"
    /\ archive_exists
    /\ Len(archive) = 2
    /\ ~HasCsvEntry

(***************************************************************************)
(* C6: the stages start at most once and in the order 1..9; the summary    *)
(* is written only after load, enrichment and every chart step; no chart   *)
(* is written after the report.                                            *)
(***************************************************************************)
LinearOrder ==
    /\ Len(started) <= 9
    /\ \A i \in 1..Len(started) : started[i] = i
    /\ Summary \in out =>
        /\ Len(started) = 9
        /\ Loaded
        /\ Enriched

C6_LinearSinglePass ==
    /\ []LinearOrder
    /\ [][(Summary \in out) => (out' = out)]_vars

C6_Witness ==
    /\ pc = "done"
    /\ Summary \in out
    /\ started = <<1, 2, 3, 4, 5, 6, 7, 8, 9>>
    /\ Charts \ out # {}

(***************************************************************************)
(* C1: a run that reaches completion has written all six chart files, so   *)
(* every file the report lists as generated was written by the run.        *)
(***************************************************************************)
C1_AllChartsWritten ==
    pc = "done" =>
        /\ Summary \in out
        /\ Charts \subseteq out
        /\ report.listed \subseteq out

(***************************************************************************)
(* C2: the Weekday count of the report is the number of records starting   *)
(* Monday to Friday, the Weekend count the number starting Saturday or     *)
(* Sunday, and a record without a parsed start time is in neither.         *)
(***************************************************************************)
C2_WeekdayWeekendCounts ==
    pc = "done" =>
        /\ report.weekday =
              CountRows(df, LAMBDA r : Parsed(r) /\ r["Start_Time"].day % 7 \in 0..4)
        /\ report.weekend =
              CountRows(df, LAMBDA r : Parsed(r) /\ r["Start_Time"].day % 7 \in {5, 6})
        /\ report.weekday + report.weekend = CountRows(df, Parsed)

(***************************************************************************)
(* C3: get_time_period maps every hour 0..23 to exactly the bucket of its  *)
(* range, and only records with an hour of day get a time period, so the   *)
(* per-period counts and the per-hour counts have the same total.          *)
(***************************************************************************)
C3_TimePeriodClassification ==
    /\ \A h \in Hours :
        /\ get_time_period(h) \in SeqRange(period_order)
        /\ get_time_period(h) = "Morning" <=> (5 <= h /\ h < 12)
        /\ get_time_period(h) = "Afternoon" <=> (12 <= h /\ h < 17)
        /\ get_time_period(h) = "Evening" <=> (17 <= h /\ h < 21)
        /\ get_time_period(h) = "Night" <=> (h < 5 \/ h >= 21)
    /\ Len(started) >= 3 =>
        SeriesTotal(period_counts) = SeriesTotal(hour_counts)

(***************************************************************************)
(* C4: every column of the table is read only after an existence check on  *)
(* it has succeeded, and a step whose column is absent is skipped instead  *)
(* of ending the run.                                                      *)
(***************************************************************************)
C4_ColumnExistsBeforeUse ==
    /\ (used \cap AllCols) \subseteq checked
    /\ err # "KeyError"

(***************************************************************************)
(* C8: a loaded table with Start_Time and Severity columns and at least    *)
(* one parsable start time never stops the run inside a step.              *)
(***************************************************************************)
C8_NeverStopsInsideStep ==
    (/\ Loaded
     /\ {"Start_Time", "Severity"} \subseteq Source.cols
     /\ CountRows(Source, LAMBDA r : r["Start_Time"].text = "ts") > 0)
    => pc # "crashed"

(***************************************************************************)
(* C9: the Safest Day is a day with the fewest records among all seven     *)
(* days, a day without records counting as zero, the Most Dangerous Day a  *)
(* day with the most, and the printed counts are those days' counts.       *)
(***************************************************************************)
DayCount(d) == CountRows(df, LAMBDA r : r["Day_of_Week"] = d)

C9_SafestAndPeakDay ==
    pc = "done" =>
        /\ report.safest_day \in SeqRange(day_order)
        /\ report.peak_day \in SeqRange(day_order)
        /\ \A d \in SeqRange(day_order) :
            /\ DayCount(report.safest_day) <= DayCount(d)
            /\ DayCount(report.peak_day) >= DayCount(d)
        /\ report.safest_day_count = DayCount(report.safest_day)
        /\ report.peak_day_count = DayCount(report.peak_day)

(***************************************************************************)
(* C10: the deployment window runs from peak_hour-1 to peak_hour+2, where  *)
(* peak_hour has the maximum record count, and both bounds are hours of    *)
(* the day.                                                                *)
(***************************************************************************)
HourCount(h) == CountRows(df, LAMBDA r : r["Hour"] = h)

C10_DeploymentWindow ==
    pc = "done" =>
        /\ report.peak_hour \in Hours
        /\ \A h \in Hours : HourCount(report.peak_hour) >= HourCount(h)
        /\ report.deploy_from = report.peak_hour - 1
        /\ report.deploy_to = report.peak_hour + 2
        /\ report.deploy_from \in Hours
        /\ report.deploy_to \in Hours

====
